---------------------------- MODULE Spec2Model ----------------------------
(***************************************************************************)
(* Model of the hardhat-ts framework of necessist.                         *)
(*                                                                         *)
(*   core/src/framework/impls/hardhat_ts/visitor.rs  the span visitor      *)
(*   src/frameworks/hardhat_ts/mod.rs                HardhatTs::parse      *)
(*   frameworks/src/hardhat_ts/mod.rs                dry_run / exec and    *)
(*                                                   the Test recognizer   *)
(*                                                                         *)
(* The visitor is a recursive walk over an swc AST.  It is modelled as an  *)
(* explicit stack machine: one step per entry into, or return from, the    *)
(* overridden visit_expr / visit_stmt, so that in_it_call_expr,            *)
(* n_stmt_leaves_visited and spans are observable between the steps.       *)
(***************************************************************************)
EXTENDS Integers, Sequences, FiniteSets, TLC

(***************************************************************************)
(* The AST alphabet the visitor inspects (swc_core::ecma::ast).  Every     *)
(* node is a record with a kind k and, once laid out, a byte span.         *)
(***************************************************************************)
Ident(sym) == [k |-> "Ident", sym |-> sym]
Str(value) == [k |-> "Str", value |-> value]
Tpl(value) == [k |-> "Tpl", value |-> value]
Num(raw) == [k |-> "Num", raw |-> raw]
\* Callee::Import, the one callee of the alphabet that is not an expression
Import == [k |-> "Import"]
CallExpr(callee, args) == [k |-> "Call", callee |-> callee, args |-> args]
MemberExpr(obj, prop) == [k |-> "Member", obj |-> obj, prop |-> prop]
MemberComputed(obj, prop) == [k |-> "MemberComputed", obj |-> obj, prop |-> prop]
AwaitExpr(arg) == [k |-> "Await", arg |-> arg]
ParenExpr(expr) == [k |-> "Paren", expr |-> expr]
BlockStmt(stmts) == [k |-> "BlockStmt", stmts |-> stmts]
ArrowExpr(body) == [k |-> "Arrow", body |-> body]
FnExpr(stmts) == [k |-> "Fn", body |-> BlockStmt(stmts)]

ExprStmt(expr) == [k |-> "ExprStmt", expr |-> expr]
BreakStmt == [k |-> "Break"]
ContinueStmt == [k |-> "Continue"]
EmptyStmt == [k |-> "Empty"]
ReturnStmt(arg) == [k |-> "Return", arg |-> arg]
DeclStmt(init) == [k |-> "Decl", init |-> init]
IfStmt(test, cons, alt) == [k |-> "If", test |-> test, cons |-> cons, alt |-> alt]
Block(stmts) == [k |-> "Block", stmts |-> stmts]
Module(body) == [k |-> "Module", body |-> body]

ExprKinds == {"Ident", "Str", "Tpl", "Num", "Call", "Member", "MemberComputed",
              "Await", "Paren", "Arrow", "Fn"}
StmtKinds == {"ExprStmt", "Break", "Continue", "Empty", "Return", "Decl", "If", "Block"}

\* a.p1.p2...pk
RECURSIVE Chain(_, _)
Chain(obj, path) ==
    IF path = <<>> THEN obj ELSE Chain(MemberExpr(obj, Head(path)), Tail(path))

\* a.p1...pk(args)
MethodCallExpr(obj, path, args) == CallExpr(Chain(obj, path), args)

(***************************************************************************)
(* Source text of a node, and the byte spans the parser reports for it.    *)
(* Lay(node, lo) is the node as the parser delivers it: every node         *)
(* carries span = [lo, hi), the offsets of its text in the file.           *)
(***************************************************************************)
\* The delimiter of a template literal is one byte wide; the string syntax of
\* TLA+ has no backquote, so the text shows it as a one-byte stand-in.
TplQuote == "'"

RECURSIVE Render(_)
RECURSIVE RenderSeq(_, _)
RenderSeq(nodes, sep) ==
    IF nodes = <<>> THEN ""
    ELSE IF Len(nodes) = 1 THEN Render(nodes[1])
    ELSE Render(Head(nodes)) \o sep \o RenderSeq(Tail(nodes), sep)

RenderBlock(stmts) ==
    IF stmts = <<>> THEN "{ }" ELSE "{ " \o RenderSeq(stmts, "\n") \o " }"

Render(n) ==
    CASE n.k = "Ident" -> n.sym
      [] n.k = "Import" -> "import"
      [] n.k = "Str" -> "\"" \o n.value \o "\""
      [] n.k = "Tpl" -> TplQuote \o n.value \o TplQuote
      [] n.k = "Num" -> n.raw
      [] n.k = "Call" -> Render(n.callee) \o "(" \o RenderSeq(n.args, ", ") \o ")"
      [] n.k = "Member" -> Render(n.obj) \o "." \o n.prop
      [] n.k = "MemberComputed" -> Render(n.obj) \o "[" \o Render(n.prop) \o "]"
      [] n.k = "Await" -> "await " \o Render(n.arg)
      [] n.k = "Paren" -> "(" \o Render(n.expr) \o ")"
      [] n.k = "BlockStmt" -> RenderBlock(n.stmts)
      [] n.k = "Arrow" -> "() => " \o Render(n.body)
      [] n.k = "Fn" -> "function () " \o Render(n.body)
      [] n.k = "ExprStmt" -> Render(n.expr) \o ";"
      [] n.k = "Break" -> "break;"
      [] n.k = "Continue" -> "continue;"
      [] n.k = "Empty" -> ";"
      [] n.k = "Return" ->
            IF n.arg = <<>> THEN "return;" ELSE "return " \o Render(n.arg[1]) \o ";"
      [] n.k = "Decl" -> "let v = " \o Render(n.init) \o ";"
      [] n.k = "If" ->
            "if (" \o Render(n.test) \o ") " \o Render(n.cons)
              \o (IF n.alt = <<>> THEN "" ELSE " else " \o Render(n.alt[1]))
      [] n.k = "Block" -> RenderBlock(n.stmts)
      [] n.k = "Module" -> RenderSeq(n.body, "\n")

SwcSpan(lo, hi) == [lo |-> lo, hi |-> hi]

RECURSIVE Lay(_, _)
RECURSIVE LaySeq(_, _, _)
\* the nodes of a list, the first at lo, each next one sep bytes after the previous
LaySeq(nodes, lo, sep) ==
    IF nodes = <<>> THEN <<>>
    ELSE LET h == Lay(Head(nodes), lo)
         IN  <<h>> \o LaySeq(Tail(nodes), h.span.hi + sep, sep)

Lay(n, lo) ==
    LET hi == lo + Len(Render(n))
        sp == SwcSpan(lo, hi)
    IN
    CASE n.k \in {"Ident", "Import", "Str", "Tpl", "Num", "Break", "Continue", "Empty"} ->
            [f \in DOMAIN n \cup {"span"} |-> IF f = "span" THEN sp ELSE n[f]]
      [] n.k = "Call" ->
            LET c == Lay(n.callee, lo)
            IN  [k |-> "Call", callee |-> c,
                 args |-> LaySeq(n.args, c.span.hi + 1, 2), span |-> sp]
      [] n.k = "Member" ->
            [k |-> "Member", obj |-> Lay(n.obj, lo), prop |-> n.prop, span |-> sp]
      [] n.k = "MemberComputed" ->
            LET o == Lay(n.obj, lo)
            IN  [k |-> "MemberComputed", obj |-> o,
                 prop |-> Lay(n.prop, o.span.hi + 1), span |-> sp]
      [] n.k = "Await" ->
            [k |-> "Await", arg |-> Lay(n.arg, lo + Len("await ")), span |-> sp]
      [] n.k = "Paren" ->
            [k |-> "Paren", expr |-> Lay(n.expr, lo + 1), span |-> sp]
      [] n.k = "BlockStmt" ->
            [k |-> "BlockStmt", stmts |-> LaySeq(n.stmts, lo + 2, 1), span |-> sp]
      [] n.k = "Arrow" ->
            [k |-> "Arrow", body |-> Lay(n.body, lo + Len("() => ")), span |-> sp]
      [] n.k = "Fn" ->
            [k |-> "Fn", body |-> Lay(n.body, lo + Len("function () ")), span |-> sp]
      [] n.k = "ExprStmt" ->
            [k |-> "ExprStmt", expr |-> Lay(n.expr, lo), span |-> sp]
      [] n.k = "Return" ->
            [k |-> "Return", arg |-> LaySeq(n.arg, lo + Len("return "), 0), span |-> sp]
      [] n.k = "Decl" ->
            [k |-> "Decl", init |-> Lay(n.init, lo + Len("let v = ")), span |-> sp]
      [] n.k = "If" ->
            LET t == Lay(n.test, lo + Len("if ("))
                c == Lay(n.cons, t.span.hi + Len(") "))
            IN  [k |-> "If", test |-> t, cons |-> c,
                 alt |-> LaySeq(n.alt, c.span.hi + Len(" else "), 0), span |-> sp]
      [] n.k = "Block" ->
            [k |-> "Block", stmts |-> LaySeq(n.stmts, lo + 2, 1), span |-> sp]
      [] n.k = "Module" ->
            [k |-> "Module", body |-> LaySeq(n.body, lo, 1), span |-> sp]

(***************************************************************************)
(* visitor.rs: the pure predicates.  An Option is a record with a field    *)
(* some; Some(..) carries the fields of MethodCall / FunctionCall.         *)
(***************************************************************************)
None == [some |-> FALSE]

Reverse(seq) == [i \in 1..Len(seq) |-> seq[Len(seq) + 1 - i]]

is_it_call_expr(expr) ==
    /\ expr.k = "Call"
    /\ expr.callee.k = "Ident"
    /\ expr.callee.sym = "it"

\* frameworks/src/hardhat_ts/mod.rs: the recognizer that yields the Test
is_it_call_expr_test(expr) ==
    IF /\ expr.k = "Call"
       /\ expr.callee.k = "Ident"
       /\ expr.callee.sym = "it"
       /\ Len(expr.args) = 2
       /\ expr.args[1].k = "Str"
       /\ expr.args[2].k = "Arrow"
       /\ expr.args[2].body.k = "BlockStmt"
    THEN [some |-> TRUE, it_message |-> expr.args[1].value, stmts |-> expr.args[2].body.stmts]
    ELSE None

is_it_call_stmt(stmt) ==
    IF stmt.k = "ExprStmt" THEN is_it_call_expr_test(stmt.expr) ELSE None

StripMembers_one(expr, path_reversed) ==
    IF expr.k = "Member"
    THEN [expr |-> expr.obj, path_reversed |-> Append(path_reversed, expr.prop)]
    ELSE [expr |-> expr, path_reversed |-> path_reversed]

\* the `while let Expr::Member { obj, prop: MemberProp::Ident(ident) } = expr` loop
RECURSIVE StripMembers(_, _)
StripMembers(expr, path_reversed) ==
    IF expr.k = "Member"
    THEN StripMembers(expr.obj, Append(path_reversed, expr.prop))
    ELSE [expr |-> expr, path_reversed |-> path_reversed]

is_method_call(expr) ==
    IF expr.k = "Call" /\ expr.callee.k # "Import"
    THEN LET r == StripMembers(expr.callee, <<>>)
         IN  IF r.path_reversed = <<>> THEN None
             ELSE [some |-> TRUE, span |-> expr.span, obj |-> r.expr,
                   path |-> Reverse(r.path_reversed), args |-> expr.args]
    ELSE None

is_ignored_method_no_to(path, args) ==
    IF path # <<>>
    THEN \/ path[1] = "should"
         \/ /\ path[1] = "toNumber" \/ path[1] = "toString"
            /\ Len(path) = 1
            /\ args = <<>>
    ELSE FALSE

is_ignored_method(path, args) ==
    IF path # <<>>
    THEN \/ path[1] = "should"
         \/ path[1] = "to"
         \/ /\ path[1] = "toNumber" \/ path[1] = "toString"
            /\ Len(path) = 1
            /\ args = <<>>
    ELSE FALSE

RECURSIVE trim_expr(_)
trim_expr(expr) ==
    CASE expr.k = "Await" -> trim_expr(expr.arg)
      [] expr.k \in {"Member", "MemberComputed"} -> trim_expr(expr.obj)
      [] OTHER -> expr

is_function_call(expr) ==
    IF expr.k = "Call" /\ expr.callee.k # "Import"
    THEN LET r == StripMembers(expr.callee, <<>>)
         IN  IF r.expr.k = "Ident"
             THEN [some |-> TRUE, span |-> expr.span,
                   path |-> Reverse(Append(r.path_reversed, r.expr.sym)),
                   args |-> expr.args]
             ELSE None
    ELSE None

RECURSIVE JoinDots(_)
JoinDots(path) ==
    IF path = <<>> THEN ""
    ELSE IF Len(path) = 1 THEN path[1]
    ELSE path[1] \o "." \o JoinDots(Tail(path))

is_ignored_function_expect_any(config, path) ==
    \/ /\ path # <<>>
       /\ path[1] = "assert" \/ path[1] = "expect"
    \/ \E s \in config.ignored_functions : s = JoinDots(path)

is_ignored_function(config, path) ==
    \/ /\ path # <<>>
       /\ path[1] = "assert" \/ (path[1] = "expect" /\ Len(path) = 1)
    \/ \E s \in config.ignored_functions : s = JoinDots(path)

RECURSIVE IgnoredCallLoop_chain(_, _)
IgnoredCallLoop_chain(config, expr) ==
    LET function_call == is_function_call(expr)
        method_call == is_method_call(expr)
    IN  IF function_call.some
        THEN IF is_ignored_function(config, function_call.path)
             THEN function_call ELSE None
        ELSE IF method_call.some
        THEN LET inner == IgnoredCallLoop_chain(config, method_call.obj)
             IN  IF inner.some
                 THEN [inner EXCEPT !.args = inner.args \o method_call.args]
                 ELSE None
        ELSE None

\* the loop of is_ignored_function_call, from the trimmed expression on
RECURSIVE IgnoredCallLoop(_, _)
IgnoredCallLoop(config, expr) ==
    LET function_call == is_function_call(expr)
        method_call == is_method_call(expr)
    IN  IF function_call.some
        THEN IF is_ignored_function(config, function_call.path)
             THEN function_call ELSE None
        ELSE IF method_call.some
        THEN IgnoredCallLoop(config, method_call.obj)
        ELSE None

is_ignored_function_call(config, stmt) ==
    IF stmt.k = "ExprStmt"
    THEN IgnoredCallLoop(config, trim_expr(stmt.expr))
    ELSE None

(***************************************************************************)
(* The default swc traversal (visit_expr / visit_stmt of swc's Visit): the *)
(* nearest expressions and statements below a node, in visiting order.     *)
(* The nodes in between (callee, arguments, block of an arrow, declarator) *)
(* have no override and only pass the walk down.                           *)
(***************************************************************************)
Frames(t, nodes) == [i \in 1..Len(nodes) |-> [t |-> t, node |-> nodes[i], pc |-> "enter", n_before |-> 0]]

Children(n) ==
    CASE n.k = "Call" ->
            (IF n.callee.k = "Import" THEN <<>> ELSE Frames("expr", <<n.callee>>))
              \o Frames("expr", n.args)
      [] n.k = "Member" -> Frames("expr", <<n.obj>>)
      [] n.k = "MemberComputed" -> Frames("expr", <<n.obj, n.prop>>)
      [] n.k = "Await" -> Frames("expr", <<n.arg>>)
      [] n.k = "Paren" -> Frames("expr", <<n.expr>>)
      [] n.k = "Arrow" ->
            IF n.body.k = "BlockStmt" THEN Frames("stmt", n.body.stmts)
            ELSE Frames("expr", <<n.body>>)
      [] n.k = "Fn" -> Frames("stmt", n.body.stmts)
      [] n.k = "ExprStmt" -> Frames("expr", <<n.expr>>)
      [] n.k = "Return" -> Frames("expr", n.arg)
      [] n.k = "Decl" -> Frames("expr", <<n.init>>)
      [] n.k = "If" ->
            Frames("expr", <<n.test>>) \o Frames("stmt", <<n.cons>>) \o Frames("stmt", n.alt)
      [] n.k = "Block" -> Frames("stmt", n.stmts)
      [] n.k = "Module" -> Frames("stmt", n.body)
      [] OTHER -> <<>>

(***************************************************************************)
(* Inputs.  The test files are built from a catalogue of statement shapes  *)
(* that covers every branch of the predicates above: receivers, member     *)
(* paths and argument lists of method calls, function-call paths, the      *)
(* statement kinds, and nesting through if / block / arrow bodies.         *)
(***************************************************************************)
MaxBody == 2     \* statements in the body of a test case
MaxNest == 1     \* levels of compound statements around a statement
MaxEntries == 2  \* test files (or directory entries) given to one parse

id_x == Ident("x")
a_b == MethodCallExpr(Ident("a"), <<"b">>, <<>>)
foo_call == CallExpr(Ident("foo"), <<>>)

Receivers ==
    { Ident("a"), a_b, CallExpr(Ident("expect"), <<id_x>>), ParenExpr(AwaitExpr(a_b)),
      MemberComputed(Ident("a"), Str("k")) }

Paths ==
    { <<"c">>, <<"to", "equal">>, <<"should", "equal">>, <<"toNumber">>, <<"toString">>,
      <<"c", "to">>, <<"toNumber", "c">> }

ArgLists == { <<>>, <<Num("1")>>, <<MethodCallExpr(id_x, <<"y">>, <<>>)>> }

MethodCalls == { MethodCallExpr(r, p, as) : r \in Receivers, p \in Paths, as \in ArgLists }

FunctionPaths ==
    { <<"foo">>, <<"expect">>, <<"assert">>, <<"assert", "equal">>, <<"expect", "x">>,
      <<"foo", "bar">>, <<"foo", "baz">>, <<"fooxbar">>, <<"foo", "bar", "baz">> }

FunctionCalls ==
    { CallExpr(Chain(Ident(Head(p)), Tail(p)), as) : p \in FunctionPaths, as \in ArgLists }

\* expect(a).to.equal(b.c()), expect(x.foo()).to.equal(y), await expect(a.b()).to.be.reverted, ...
OtherExprs ==
    { MethodCallExpr(CallExpr(Ident("expect"), <<Ident("a")>>), <<"to", "equal">>,
                     <<MethodCallExpr(Ident("b"), <<"c">>, <<>>)>>),
      MethodCallExpr(CallExpr(Ident("expect"), <<MethodCallExpr(id_x, <<"foo">>, <<>>)>>),
                     <<"to", "equal">>, <<Ident("y")>>),
      AwaitExpr(Chain(CallExpr(Ident("expect"), <<a_b>>), <<"to", "be", "reverted">>)),
      AwaitExpr(a_b),
      AwaitExpr(MethodCallExpr(CallExpr(Chain(Ident("assert"), <<"ok">>), <<a_b>>),
                               <<"c">>, <<>>)),
      Chain(Ident("a"), <<"b">>),
      MethodCallExpr(MethodCallExpr(a_b, <<"c">>, <<>>), <<"d">>, <<>>),
      CallExpr(Import, <<Str("m")>>),
      CallExpr(Ident("it"), <<Str("n")>>),
      CallExpr(ParenExpr(foo_call), <<>>) }

SimpleStmts ==
    { ExprStmt(e) : e \in MethodCalls \cup FunctionCalls \cup OtherExprs }
      \cup { BreakStmt, ContinueStmt, EmptyStmt, ReturnStmt(<<>>), ReturnStmt(<<a_b>>),
             DeclStmt(a_b), DeclStmt(id_x), Block(<<>>) }

CoreStmts ==
    { ExprStmt(foo_call),
      ExprStmt(MethodCallExpr(a_b, <<"c">>, <<>>)),
      ExprStmt(MethodCallExpr(CallExpr(Ident("expect"), <<id_x>>), <<"to", "equal">>, <<Num("1")>>)),
      ExprStmt(CallExpr(Ident("assert"), <<id_x>>)),
      ReturnStmt(<<id_x>>),
      DeclStmt(a_b) }

\* a statement with the statement s nested one level inside it
Nest(s) ==
    { IfStmt(id_x, s, <<>>),
      IfStmt(id_x, Block(<<s>>), <<>>),
      IfStmt(a_b, Block(<<s>>), <<Block(<<ExprStmt(foo_call)>>)>>),
      Block(<<s, s>>),
      ExprStmt(CallExpr(Ident("foo"), <<ArrowExpr(BlockStmt(<<s>>))>>)),
      ExprStmt(CallExpr(Ident("expect"), <<ArrowExpr(BlockStmt(<<s>>))>>)),
      ExprStmt(MethodCallExpr(CallExpr(Ident("expect"), <<id_x>>), <<"to", "satisfy">>,
                              <<ArrowExpr(BlockStmt(<<s>>))>>)),
      ExprStmt(CallExpr(Ident("it"), <<Str("n"), ArrowExpr(BlockStmt(<<s>>))>>)) }

RECURSIVE NestedStmts(_)
NestedStmts(d) ==
    IF d = 0 THEN CoreStmts
    ELSE LET below == NestedStmts(d - 1)
         IN  below \cup UNION { Nest(s) : s \in below }

RECURSIVE SeqsUpTo(_, _)
\* the sequences over S of length at most n
SeqsUpTo(S, n) ==
    IF n = 0 THEN { <<>> }
    ELSE LET shorter == SeqsUpTo(S, n - 1)
         IN  shorter \cup { Append(q, e) : q \in shorter, e \in S }

Bodies ==
    { <<s>> : s \in SimpleStmts \cup NestedStmts(MaxNest) } \cup SeqsUpTo(CoreStmts, MaxBody)

SmallBodies == SeqsUpTo(CoreStmts, 1)

\* the forms of a call with callee `it`
ItForms == { "strict", "one_arg", "three_args", "template", "function", "expr_body" }

ItCall(form, body) ==
    CASE form = "strict" -> CallExpr(Ident("it"), <<Str("m"), ArrowExpr(BlockStmt(body))>>)
      [] form = "one_arg" -> CallExpr(Ident("it"), <<ArrowExpr(BlockStmt(body))>>)
      [] form = "three_args" ->
            CallExpr(Ident("it"), <<Str("m"), ArrowExpr(BlockStmt(body)), Num("9")>>)
      [] form = "template" -> CallExpr(Ident("it"), <<Tpl("m"), ArrowExpr(BlockStmt(body))>>)
      [] form = "function" -> CallExpr(Ident("it"), <<Str("m"), FnExpr(body)>>)
      [] form = "expr_body" ->
            CallExpr(Ident("it"),
                     <<Str("m"), ArrowExpr(IF body = <<>> \/ body[1].k # "ExprStmt"
                                           THEN a_b ELSE body[1].expr)>>)

Describe(stmts) ==
    ExprStmt(CallExpr(Ident("describe"), <<Str("d"), ArrowExpr(BlockStmt(stmts))>>))

Outside == ExprStmt(MethodCallExpr(Ident("o"), <<"p">>, <<>>))

Modules ==
    { Module(<<ExprStmt(ItCall("strict", b))>>) : b \in Bodies }
      \cup { Module(<<ExprStmt(ItCall(f, b))>>) : f \in ItForms, b \in SmallBodies }
      \cup { Module(<<Outside, ExprStmt(ItCall(f, b)), Outside>>) : f \in ItForms, b \in SmallBodies }
      \cup { Module(<<Describe(<<Outside, ExprStmt(ItCall(f, b)), ReturnStmt(<<>>)>>)>>) :
               f \in ItForms, b \in SmallBodies }
      \cup { Module(<<ExprStmt(ItCall("strict", b1)), ExprStmt(ItCall("strict", b2))>>) :
               b1 \in SmallBodies, b2 \in SmallBodies }

Configs == { [ignored_functions |-> {}], [ignored_functions |-> {"foo.bar"}] }

\* a test file of the project: the outcome of loading and parsing it
TestFile(path, load, mod) == [kind |-> "file", path |-> path, load |-> load, module |-> mod]

\* an entry of the directory walk that is not a .ts file, and a failing entry
OtherEntry == [kind |-> "other", path |-> "test/README.md"]
WalkError == [kind |-> "walk_error"]

SampleModule(s) == Module(<<ExprStmt(ItCall("strict", <<s>>))>>)

SampleFiles ==
    { TestFile("test/a.ts", "ok", SampleModule(ExprStmt(MethodCallExpr(a_b, <<"c">>, <<>>)))),
      TestFile("test/b.ts", "ok", SampleModule(ExprStmt(foo_call))),
      TestFile("test/c.ts", "io_error", Module(<<>>)),
      TestFile("test/d.ts", "parse_error", Module(<<>>)) }

\* what one call of parse is given: explicit test files, or (none given) the
\* entries WalkDir yields under <root>/test
ParseInputs ==
    { [test_files |-> <<TestFile("test/m.ts", "ok", m)>>, walk |-> <<>>] : m \in Modules }
      \cup { [test_files |-> fs, walk |-> <<>>] : fs \in SeqsUpTo(SampleFiles, MaxEntries) \ {<<>>} }
      \cup { [test_files |-> <<>>, walk |-> es] :
               es \in SeqsUpTo(SampleFiles \cup {OtherEntry, WalkError}, MaxEntries) }

(***************************************************************************)
(* State.                                                                  *)
(***************************************************************************)
VARIABLES
    config,                 \* Visitor.config: the ignore configuration
    input,                  \* the arguments of parse (test_files) and the directory
    pc,                     \* position of parse: "loop", "visit", "returned", "panicked"
    idx,                    \* the entry the loop of parse is at
    parse_spans,            \* the local `spans` of parse
    parse_result,           \* what parse returned to its caller
    module,                 \* the parsed Module of the pass
    source_map,             \* the text of the loaded file
    source_file,            \* Visitor.source_file
    stack,                  \* the call stack of the walk, innermost call first
    in_it_call_expr,        \* Visitor.in_it_call_expr
    n_stmt_leaves_visited,  \* Visitor.n_stmt_leaves_visited
    spans,                  \* Visitor.spans
    span_it_message_map,             \* HardhatTs.span_it_message_map
    test_file_it_message_state_map,  \* HardhatTs.test_file_it_message_state_map
    warnings,                        \* the warnings signalled through source_warn
    run_result,                      \* what the last dry_run / exec returned
    dry_runs                         \* history: the dry runs whose test command succeeded

visitor_vars == <<module, source_map, source_file, stack, in_it_call_expr,
                  n_stmt_leaves_visited, spans>>
parse_vars == <<config, input, pc, idx, parse_spans, parse_result>>
run_vars == <<span_it_message_map, test_file_it_message_state_map, warnings, run_result,
              dry_runs>>
vars == <<parse_vars, visitor_vars, run_vars>>

(***************************************************************************)
(* Conversion of byte positions to the (line, column) pairs of a Span.     *)
(***************************************************************************)
\* the offsets of source_map at which a line starts
LineStarts(text) == {0} \cup { i \in 1..Len(text) : SubSeq(text, i, i) = "\n" }

Max(S) == CHOOSE m \in S : \A o \in S : o <= m

to_line_column(pos, text) ==
    LET starts == { st \in LineStarts(text) : st <= pos }
    IN  [line |-> Cardinality(starts), column |-> pos - Max(starts)]

to_internal_span(span, text, file) ==
    [source_file |-> file,
     start |-> to_line_column(span.lo, text),
     end |-> to_line_column(span.hi, text)]

(***************************************************************************)
(* Visitor (visitor.rs).                                                   *)
(***************************************************************************)
Top == stack[1]
Rest == Tail(stack)
Running == pc = "visit" /\ stack # <<>>

\* `assert!` failed: the pass is abandoned by a panic
Panic ==
    /\ pc' = "panicked"
    /\ parse_result' = [tag |-> "panic"]
    /\ UNCHANGED <<config, input, idx, parse_spans, visitor_vars>>

IsLeaf_always(n_before, n_after) == TRUE

\* visit_stmt, line 112: a leaf if-and-only-if no leaves were added by the recursion
IsLeaf(n_before, n_after) == n_before = n_after

EmitsStmt_anywhere(in_it, stmt) ==
    stmt.k \notin {"Break", "Continue", "Decl", "Return"}

EmitsStmt_return(in_it, stmt) ==
    in_it /\ stmt.k \notin {"Break", "Continue", "Decl"}

\* visit_stmt, lines 117-122: the condition under which a leaf's span is emitted
EmitsStmt(in_it, stmt) ==
    in_it /\ stmt.k \notin {"Break", "Continue", "Decl", "Return"}

CountLeaf_emitted(n, in_it, stmt) == IF EmitsStmt(in_it, stmt) THEN n + 1 ELSE n

\* visit_stmt, line 115: every leaf is counted, also one that is not emitted
CountLeaf(n, in_it, stmt) == n + 1

SuffixSpan_whole(span, obj) == span

\* visit_expr, lines 83-84: the span of a method call's suffix
SuffixSpan(span, obj) == [span EXCEPT !.lo = obj.span.hi]

\* visit_expr, lines 72-81: whether a suffix span is emitted for expr
EmitsSuffix(in_it, expr) ==
    /\ in_it
    /\ is_method_call(expr).some
    /\ ~is_ignored_method(is_method_call(expr).path, is_method_call(expr).args)

ExitItCall_keep(in_it) == in_it

\* visit_expr, lines 64-65: leaving an `it` call
ExitItCall(in_it) == FALSE

\* visit_expr is entered for the expression on top of the stack
VisitExprEnter ==
    /\ Running
    /\ UNCHANGED run_vars
    /\ Top.t = "expr" /\ Top.pc = "enter"
    /\ IF is_it_call_expr(Top.node)
       THEN IF in_it_call_expr
            THEN Panic
            ELSE /\ in_it_call_expr' = TRUE
                 /\ stack' = Children(Top.node) \o <<[Top EXCEPT !.pc = "exit_it"]>> \o Rest
                 /\ UNCHANGED <<parse_vars, module, source_map, source_file,
                                n_stmt_leaves_visited, spans>>
       ELSE /\ stack' = Children(Top.node) \o <<[Top EXCEPT !.pc = "after"]>> \o Rest
            /\ UNCHANGED <<parse_vars, module, source_map, source_file, in_it_call_expr,
                           n_stmt_leaves_visited, spans>>

\* the default walk below the expression has returned
VisitExprReturn ==
    /\ Running
    /\ UNCHANGED run_vars
    /\ Top.t = "expr" /\ Top.pc \in {"exit_it", "after"}
    /\ IF Top.pc = "exit_it"
       THEN IF ~in_it_call_expr
            THEN Panic
            ELSE /\ in_it_call_expr' = ExitItCall(in_it_call_expr)
                 /\ stack' = Rest
                 /\ UNCHANGED <<parse_vars, module, source_map, source_file,
                                n_stmt_leaves_visited, spans>>
       ELSE IF EmitsSuffix(in_it_call_expr, Top.node)
            THEN LET span == SuffixSpan(Top.node.span, is_method_call(Top.node).obj)
                 IN  IF ~(span.lo <= span.hi)
                     THEN Panic
                     ELSE /\ spans' = Append(spans,
                                             to_internal_span(span, source_map, source_file))
                          /\ stack' = Rest
                          /\ UNCHANGED <<parse_vars, module, source_map, source_file,
                                         in_it_call_expr, n_stmt_leaves_visited>>
            ELSE /\ stack' = Rest
                 /\ UNCHANGED <<parse_vars, module, source_map, source_file,
                                in_it_call_expr, n_stmt_leaves_visited, spans>>

IgnoredCallFrames_none(function_call) == <<>>

\* visit_stmt, lines 99-104: of an ignored function call only the arguments are
\* visited (the type arguments hold types, no expression or statement)
IgnoredCallFrames(function_call) == Frames("expr", function_call.args)

IgnoredCallCount_leaf(n) == n + 1

\* visit_stmt, lines 99-104: the branch of an ignored function call leaves the
\* leaf counter as it is
IgnoredCallCount(n) == n

\* visit_stmt is entered for the statement on top of the stack
VisitStmtEnter ==
    /\ Running
    /\ UNCHANGED run_vars
    /\ Top.t = "stmt" /\ Top.pc = "enter"
    /\ LET function_call == is_ignored_function_call(config, Top.node)
       IN  IF function_call.some
           THEN /\ stack' = IgnoredCallFrames(function_call) \o Rest
                /\ n_stmt_leaves_visited' = IgnoredCallCount(n_stmt_leaves_visited)
           ELSE /\ stack' = Children(Top.node)
                               \o <<[Top EXCEPT !.pc = "after",
                                                !.n_before = n_stmt_leaves_visited]>>
                               \o Rest
                /\ UNCHANGED n_stmt_leaves_visited
    /\ UNCHANGED <<parse_vars, module, source_map, source_file, in_it_call_expr, spans>>

\* the default walk below the statement has returned
VisitStmtReturn ==
    /\ Running
    /\ UNCHANGED run_vars
    /\ Top.t = "stmt" /\ Top.pc = "after"
    /\ stack' = Rest
    /\ IF ~IsLeaf(Top.n_before, n_stmt_leaves_visited)
       THEN UNCHANGED <<n_stmt_leaves_visited, spans>>
       ELSE /\ n_stmt_leaves_visited' = CountLeaf(n_stmt_leaves_visited, in_it_call_expr, Top.node)
            /\ IF EmitsStmt(in_it_call_expr, Top.node)
               THEN spans' = Append(spans,
                                    to_internal_span(Top.node.span, source_map, source_file))
               ELSE UNCHANGED spans
    /\ UNCHANGED <<parse_vars, module, source_map, source_file, in_it_call_expr>>

(***************************************************************************)
(* HardhatTs::parse (src/frameworks/hardhat_ts/mod.rs).                    *)
(***************************************************************************)
Entries == IF input.test_files = <<>> THEN input.walk ELSE input.test_files

AtEntry == pc = "loop" /\ idx <= Len(Entries)

\* `?` on an error: parse returns it.  parse_spans keeps the value the local had
\* at that moment; the local dies with the call, the caller has parse_result only.
ReturnErr(error) ==
    /\ pc' = "returned"
    /\ parse_result' = [tag |-> "Err", error |-> error]
    /\ UNCHANGED <<config, input, idx, parse_spans, visitor_vars, run_vars>>

\* `let entry = entry?;` of the directory walk
ParseWalkError ==
    /\ AtEntry
    /\ Entries[idx].kind = "walk_error"
    /\ ReturnErr("walk")

\* an entry whose extension is not "ts": `continue`
ParseSkipEntry ==
    /\ AtEntry
    /\ Entries[idx].kind = "other"
    /\ idx' = idx + 1
    /\ UNCHANGED <<config, input, pc, parse_spans, parse_result, visitor_vars, run_vars>>

\* source_map.load_file(test_file)? or parse_typescript_module()...? fails
ParseLoadError ==
    /\ AtEntry
    /\ Entries[idx].kind = "file"
    /\ Entries[idx].load \in {"io_error", "parse_error"}
    /\ ReturnErr(Entries[idx].load)

\* the file is loaded and parsed; visit() builds a Visitor and calls visit_module
ParseVisitFile ==
    /\ AtEntry
    /\ Entries[idx].kind = "file"
    /\ Entries[idx].load = "ok"
    /\ module' = Lay(Entries[idx].module, 0)
    /\ source_map' = Render(Entries[idx].module)
    /\ source_file' = Entries[idx].path
    /\ in_it_call_expr' = FALSE
    /\ n_stmt_leaves_visited' = 0
    /\ spans' = <<>>
    /\ stack' = Children(module')
    /\ pc' = "visit"
    /\ UNCHANGED <<config, input, idx, parse_spans, parse_result, run_vars>>

\* visit() has returned visitor.spans: `spans.extend(visited_spans)`
ParseCollect ==
    /\ pc = "visit" /\ stack = <<>>
    /\ parse_spans' = parse_spans \o spans
    /\ idx' = idx + 1
    /\ pc' = "loop"
    /\ UNCHANGED <<config, input, parse_result, visitor_vars, run_vars>>

\* `Ok(spans)`
ParseReturn ==
    /\ pc = "loop" /\ idx > Len(Entries)
    /\ parse_result' = [tag |-> "Ok", spans |-> parse_spans]
    /\ pc' = "returned"
    /\ UNCHANGED <<config, input, idx, parse_spans, visitor_vars, run_vars>>

RunInit ==
    /\ span_it_message_map = <<>>
    /\ test_file_it_message_state_map = <<>>
    /\ warnings = <<>>
    /\ run_result = [op |-> "none"]
    /\ dry_runs = {}

Init ==
    /\ config \in Configs
    /\ input \in ParseInputs
    /\ pc = "loop"
    /\ idx = 1
    /\ parse_spans = <<>>
    /\ parse_result = [tag |-> "none"]
    /\ module = Lay(Module(<<>>), 0)
    /\ source_map = ""
    /\ source_file = ""
    /\ stack = <<>>
    /\ in_it_call_expr = FALSE
    /\ n_stmt_leaves_visited = 0
    /\ spans = <<>>
    /\ RunInit

Next ==
    \/ ParseWalkError
    \/ ParseSkipEntry
    \/ ParseLoadError
    \/ ParseVisitFile
    \/ VisitExprEnter
    \/ VisitExprReturn
    \/ VisitStmtEnter
    \/ VisitStmtReturn
    \/ ParseCollect
    \/ ParseReturn

Spec == Init /\ [][Next]_vars

\* the walk over the current file has run to its end
PassCompleted == source_file # "" /\ stack = <<>> /\ pc # "panicked"

TypeOK ==
    /\ pc \in {"loop", "visit", "returned", "panicked"}
    /\ in_it_call_expr \in BOOLEAN
    /\ n_stmt_leaves_visited \in Nat

(***************************************************************************)
(* dry_run and exec (frameworks/src/hardhat_ts/mod.rs).                    *)
(***************************************************************************)
MaxLines == 1   \* lines of runner output that one dry run shows

\* The check mark of the runner's output is one character; the regular
\* expressions match it with `.`, and the text shows it as "v".
CheckMark == "v"

RunFiles == {"test/a.ts", "test/b.ts"}

RunSpan(file, column) ==
    [source_file |-> file, start |-> [line |-> 1, column |-> column],
     end |-> [line |-> 1, column |-> column + 4]]

ItMessages == { "m", "m (x)" }

\* the candidates parse finds: two spans in the test "m" of test/a.ts, one in
\* the test "m (x)" of test/b.ts
Candidates ==
    { [span |-> RunSpan("test/a.ts", 16), test_name |-> "m"],
      [span |-> RunSpan("test/a.ts", 30), test_name |-> "m"],
      [span |-> RunSpan("test/b.ts", 16), test_name |-> "m (x)"] }

RunSpans == { c.span : c \in Candidates }

\* the `it` messages of the tests of a file
TestsOf(test_file) ==
    { c.test_name : c \in { d \in Candidates : d.span.source_file = test_file } }

\* the line the runner prints for a passing test, without and with its time
PassingLine(it_message) == "  " \o CheckMark \o " " \o it_message
TimedLine(it_message) == PassingLine(it_message) \o " (5ms)"

\* the lines a run of a file can print: one for a test of the file, or a blank
StdoutLines(test_file) ==
    { PassingLine(m) : m \in TestsOf(test_file) }
      \cup { TimedLine(m) : m \in TestsOf(test_file) }
      \cup { "" }

\* a BTreeMap as a function; `<<>>` is the empty map
Put(map, key, value) ==
    [k \in DOMAIN map \cup {key} |-> IF k = key THEN value ELSE map[k]]

CharAt(str, i) == SubSeq(str, i, i)

\* the number of leading whitespace characters of a line
RECURSIVE LeadingSpaces(_)
LeadingSpaces(line) ==
    IF line # "" /\ CharAt(line, 1) \in {" ", "\t"}
    THEN 1 + LeadingSpaces(SubSeq(line, 2, Len(line)))
    ELSE 0

\* what follows `^\s*. ` when \s* takes k characters, if the line has that form
AfterMark(line, k) ==
    IF Len(line) >= k + 2 /\ CharAt(line, k + 2) = " "
    THEN [some |-> TRUE, rest |-> SubSeq(line, k + 3, Len(line))]
    ELSE None

\* `(.*) \(.*\)$` on rest: the positions j at which ` (` starts, a `)` ending rest
TimeStarts(rest) ==
    { j \in 1..(Len(rest) - 2) :
        /\ SubSeq(rest, j, j + 1) = " ("
        /\ CharAt(rest, Len(rest)) = ")" }

\* LINE_WITH_TIME_RE = ^\s*. (.*) \(.*\)$ : captures[1]; \s* and (.*) are greedy
LINE_WITH_TIME_RE(line) ==
    LET ks == { k \in 0..LeadingSpaces(line) :
                  AfterMark(line, k).some /\ TimeStarts(AfterMark(line, k).rest) # {} }
    IN  IF ks = {} THEN None
        ELSE LET rest == AfterMark(line, Max(ks)).rest
             IN  [some |-> TRUE, capture |-> SubSeq(rest, 1, Max(TimeStarts(rest)) - 1)]

\* LINE_WITHOUT_TIME_RE = ^\s*. (.*)$ : captures[1]
LINE_WITHOUT_TIME_RE(line) ==
    LET ks == { k \in 0..LeadingSpaces(line) : AfterMark(line, k).some }
    IN  IF ks = {} THEN None
        ELSE [some |-> TRUE, capture |-> AfterMark(line, Max(ks)).rest]

\* LINE_WITH_TIME_RE.captures(line).or_else(|| LINE_WITHOUT_TIME_RE.captures(line))
Captures(line) ==
    IF LINE_WITH_TIME_RE(line).some THEN LINE_WITH_TIME_RE(line)
    ELSE LINE_WITHOUT_TIME_RE(line)

\* dry_run, lines 480-488: the loop over the lines of stdout
RECURSIVE RecordLines(_, _)
RecordLines(it_message_state_map, lines) ==
    IF lines = <<>> THEN it_message_state_map
    ELSE RecordLines(IF Captures(Head(lines)).some
                     THEN Put(it_message_state_map, Captures(Head(lines)).capture, "Found")
                     ELSE it_message_state_map,
                     Tail(lines))

\* `.entry(key).or_insert_with(Default::default)`
OrInsert(map, key, dflt) == IF key \in DOMAIN map THEN map ELSE Put(map, key, dflt)

\* ItMessageState::default()
DefaultItMessageState == "NotFound"

Alive == run_result.op # "panic"

EntryAtDecodeError_none(map, test_file) == map

\* dry_run, lines 474-479: the map as `from_utf8(..)?` leaves it when it fails;
\* the entry of the file was made before, once the test command had succeeded
EntryAtDecodeError(map, test_file) == OrInsert(map, test_file, <<>>)

\* ParseLow::on_candidate_found -> set_span_it_message
OnCandidateFound ==
    /\ Alive
    /\ \E c \in Candidates :
         span_it_message_map' = Put(span_it_message_map, c.span, c.test_name)
    /\ run_result' = [op |-> "on_candidate_found"]
    /\ UNCHANGED <<test_file_it_message_state_map, warnings, dry_runs, parse_vars,
                   visitor_vars>>

\* dry_run fails before it touches the map: install_node_modules, compile,
\* spawning the command, or a failing test run
DryRunFails ==
    /\ Alive
    /\ \E test_file \in RunFiles :
         run_result' = [op |-> "dry_run", test_file |-> test_file, value |-> "Err"]
    /\ UNCHANGED <<span_it_message_map, test_file_it_message_state_map, warnings,
                   dry_runs, parse_vars, visitor_vars>>

\* the test run succeeded, but its stdout is not UTF-8: `from_utf8(..)?` returns
\* the error after the entry of the file has been made
DryRunBadUtf8 ==
    /\ Alive
    /\ \E test_file \in RunFiles :
         /\ test_file_it_message_state_map' =
               EntryAtDecodeError(test_file_it_message_state_map, test_file)
         /\ run_result' = [op |-> "dry_run", test_file |-> test_file, value |-> "Err"]
         /\ dry_runs' = dry_runs \cup {[test_file |-> test_file, outcome |-> "Utf8Error"]}
    /\ UNCHANGED <<span_it_message_map, warnings, parse_vars, visitor_vars>>

\* the test run succeeded and printed stdout
DryRun ==
    /\ Alive
    /\ \E test_file \in RunFiles :
         \E stdout \in SeqsUpTo(StdoutLines(test_file), MaxLines) :
           LET with_entry == OrInsert(test_file_it_message_state_map, test_file, <<>>)
           IN  /\ test_file_it_message_state_map' =
                     Put(with_entry, test_file, RecordLines(with_entry[test_file], stdout))
               /\ run_result' = [op |-> "dry_run", test_file |-> test_file, value |-> "Ok",
                                 stdout |-> stdout]
               /\ dry_runs' = dry_runs \cup {[test_file |-> test_file, outcome |-> "Ok"]}
    /\ UNCHANGED <<span_it_message_map, warnings, parse_vars, visitor_vars>>

\* source_warn(context, Warning::ItMessageNotFound, span, ..): the warning is signalled
\* (warnings counts the signals per warning, file and message)
source_warn(ws, warning, span, it_message) ==
    LET key == [warning |-> warning, source_file |-> span.source_file,
                it_message |-> it_message]
    IN  Put(ws, key, IF key \in DOMAIN ws THEN ws[key] + 1 ELSE 1)

ExecStateAfterWarning_same == "NotFound"

\* exec, line 527: the state a message is left in once the warning is out
ExecStateAfterWarning == "WarningEmitted"

\* exec, line 518: the message was not found, no command is returned
ExecReturnsNone(state) == state # "Found"

ExecResult(span, value) == [op |-> "exec", span |-> span, value |-> value]

\* exec: `compile` fails and exec returns Ok(None)
ExecCompileFails ==
    /\ Alive
    /\ \E span \in RunSpans : run_result' = ExecResult(span, "NotCompiled")
    /\ UNCHANGED <<span_it_message_map, test_file_it_message_state_map, warnings,
                   dry_runs, parse_vars, visitor_vars>>

\* exec, the project compiles
Exec ==
    /\ Alive
    /\ \E span \in RunSpans :
         IF span \notin DOMAIN span_it_message_map
         THEN \* .expect("`it` message is not set")
              /\ run_result' = [op |-> "panic", span |-> span]
              /\ UNCHANGED <<test_file_it_message_state_map, warnings>>
         ELSE IF span.source_file \notin DOMAIN test_file_it_message_state_map
         THEN \* .expect("Source file is not in map")
              /\ run_result' = [op |-> "panic", span |-> span]
              /\ UNCHANGED <<test_file_it_message_state_map, warnings>>
         ELSE LET it_message == span_it_message_map[span]
                  it_message_state_map ==
                      OrInsert(test_file_it_message_state_map[span.source_file],
                               it_message, DefaultItMessageState)
                  state == it_message_state_map[it_message]
              IN  IF ExecReturnsNone(state)
                  THEN /\ IF state = "NotFound"
                          THEN /\ warnings' = source_warn(warnings, "ItMessageNotFound",
                                                          span, it_message)
                               /\ test_file_it_message_state_map' =
                                     Put(test_file_it_message_state_map, span.source_file,
                                         Put(it_message_state_map, it_message,
                                             ExecStateAfterWarning))
                          ELSE /\ UNCHANGED warnings
                               /\ test_file_it_message_state_map' =
                                     Put(test_file_it_message_state_map, span.source_file,
                                         it_message_state_map)
                       /\ run_result' = ExecResult(span, "None")
                  ELSE /\ UNCHANGED warnings
                       /\ test_file_it_message_state_map' =
                             Put(test_file_it_message_state_map, span.source_file,
                                 it_message_state_map)
                       /\ run_result' = ExecResult(span, "Some")
    /\ UNCHANGED <<span_it_message_map, dry_runs, parse_vars, visitor_vars>>

\* the framework object after HardhatTs::new(), nothing parsed
InitRun ==
    /\ RunInit
    /\ config \in Configs
    /\ input = [test_files |-> <<>>, walk |-> <<>>]
    /\ pc = "returned"
    /\ idx = 1
    /\ parse_spans = <<>>
    /\ parse_result = [tag |-> "none"]
    /\ module = Lay(Module(<<>>), 0)
    /\ source_map = ""
    /\ source_file = ""
    /\ stack = <<>>
    /\ in_it_call_expr = FALSE
    /\ n_stmt_leaves_visited = 0
    /\ spans = <<>>

NextRun ==
    \/ OnCandidateFound
    \/ DryRunFails
    \/ DryRunBadUtf8
    \/ DryRun
    \/ ExecCompileFails
    \/ Exec

SpecRun == InitRun /\ [][NextRun]_vars

(***************************************************************************)
(* Vocabulary of the properties: the nodes of the module under analysis    *)
(* and the spans, as the visitor would report them, of those nodes.        *)
(***************************************************************************)
SeqRange(q) == { q[i] : i \in DOMAIN q }

\* every node directly below a node, visited or not
Below(n) ==
    CASE n.k = "Call" -> {n.callee} \cup SeqRange(n.args)
      [] n.k = "Member" -> {n.obj}
      [] n.k = "MemberComputed" -> {n.obj, n.prop}
      [] n.k = "Await" -> {n.arg}
      [] n.k = "Paren" -> {n.expr}
      [] n.k \in {"Arrow", "Fn"} -> {n.body}
      [] n.k \in {"BlockStmt", "Block"} -> SeqRange(n.stmts)
      [] n.k = "ExprStmt" -> {n.expr}
      [] n.k = "Return" -> SeqRange(n.arg)
      [] n.k = "Decl" -> {n.init}
      [] n.k = "If" -> {n.test, n.cons} \cup SeqRange(n.alt)
      [] n.k = "Module" -> SeqRange(n.body)
      [] OTHER -> {}

RECURSIVE Subnodes(_)
Subnodes(n) == {n} \cup UNION { Subnodes(c) : c \in Below(n) }

StmtNodes == { n \in Subnodes(module) : n.k \in StmtKinds }
CallNodes == { n \in Subnodes(module) : n.k = "Call" }
ItCallNodes == { n \in CallNodes : n.callee.k = "Ident" /\ n.callee.sym = "it" }

Internal(span) == to_internal_span(span, source_map, source_file)

LcLe(p, q) == p.line < q.line \/ (p.line = q.line /\ p.column <= q.column)
Within(s, t) == LcLe(t.start, s.start) /\ LcLe(s.end, t.end)
StrictlyWithin(s, t) == Within(s, t) /\ s # t

Emitted == SeqRange(spans)
EmittedStmtNodes == { n \in StmtNodes : Internal(n.span) \in Emitted }

\* the suffix span the visitor reports for a call with member path p1...pk
SuffixOf(call) == Internal([lo |-> is_method_call(call).obj.span.hi, hi |-> call.span.hi])

\* the byte offset of a (line, column) position, and the text a Span covers
OffsetOf(lc) == CHOOSE p \in 0..Len(source_map) : to_line_column(p, source_map) = lc
TextOf(span) == SubSeq(source_map, OffsetOf(span.start) + 1, OffsetOf(span.end))
Texts == [i \in DOMAIN spans |-> TextOf(spans[i])]

\* the statements that make up the bodies of the `it` calls written as
\* statements of the module or of a describe block
TopStmts ==
    SeqRange(module.body)
      \cup UNION { SeqRange(st.expr.args[2].body.stmts) :
                     st \in { t \in SeqRange(module.body) :
                                /\ t.k = "ExprStmt" /\ t.expr.k = "Call"
                                /\ t.expr.callee.k = "Ident"
                                /\ t.expr.callee.sym = "describe" } }
TestBodyStmts ==
    UNION { SeqRange(is_it_call_stmt(st).stmts) :
              st \in { t \in TopStmts : is_it_call_stmt(t).some } }

(***************************************************************************)
(* Properties.                                                             *)
(***************************************************************************)
StrictItCall(c) == is_it_call_expr_test(c).some

\* C1: the visitor enters test-case mode for a call with callee `it` if and
\* only if the call has exactly two arguments, a string literal and an arrow
\* function with a block body; inside a call of any other form with callee
\* `it` no span is emitted.
C1_TestCaseModeIffStrictForm ==
    /\ \A i \in DOMAIN stack :
         (stack[i].t = "expr" /\ stack[i].pc # "enter" /\ stack[i].node \in ItCallNodes)
           => (stack[i].pc = "exit_it" <=> StrictItCall(stack[i].node))
    /\ \A c \in ItCallNodes :
         (\A d \in ItCallNodes \cap Subnodes(c) : ~StrictItCall(d))
           => \A sp \in Emitted : ~Within(sp, Internal(c.span))

\* C2: of two statement spans emitted by visit_stmt neither strictly contains
\* the other: when a nested statement is emitted, no statement around it is.
C2_NoNestedStatementSpans ==
    \A n1 \in EmittedStmtNodes : \A n2 \in EmittedStmtNodes :
        ~StrictlyWithin(Internal(n1.span), Internal(n2.span))

C2_Witness ==
    /\ PassCompleted
    /\ \E n \in EmittedStmtNodes : \E m \in StmtNodes :
         /\ m.k \in {"If", "Block"}
         /\ StrictlyWithin(Internal(n.span), Internal(m.span))

\* C3: every span appended to the output lies within the source range of an
\* `it` call that put the visitor in test-case mode (a call whose visit is in
\* progress with the flag set by it); nothing outside such a call is emitted.
C3_SpansInsideItCall ==
    [][\A i \in (Len(spans) + 1)..Len(spans') :
         \E j \in DOMAIN stack :
            /\ stack[j].pc = "exit_it"
            /\ Within(spans'[i], Internal(stack[j].node.span))]_vars

C3_Witness ==
    /\ PassCompleted
    /\ spans # <<>>
    /\ \E n \in StmtNodes :
         /\ n.k = "ExprStmt" /\ is_method_call(n.expr).some
         /\ \A c \in ItCallNodes : ~Within(Internal(n.span), Internal(c.span))

\* C4: a break, continue, return or declaration statement is never emitted:
\* no emitted statement span is the span of such a statement.
C4_NoControlOrDeclarationSpan ==
    \A n \in EmittedStmtNodes : n.k \notin {"Break", "Continue", "Return", "Decl"}

C4_Witness ==
    /\ PassCompleted
    /\ spans # <<>>
    /\ \E n \in TestBodyStmts : n.k \in {"Break", "Continue", "Return", "Decl"}

IgnoredChain(path, args) ==
    \/ path[1] \in {"should", "to"}
    \/ Len(path) = 1 /\ path[1] \in {"toNumber", "toString"} /\ args = <<>>

\* C5: no method-suffix span is emitted for a chain receiver.p1...pk(args)
\* whose first identifier p1 is `should` or `to`, or that is the single
\* identifier `toNumber` or `toString` called without arguments.
C5_IgnoredMethodsNotEmitted ==
    \A c \in CallNodes :
        (is_method_call(c).some /\ IgnoredChain(is_method_call(c).path, c.args))
          => SuffixOf(c) \notin Emitted

C5_Witness ==
    /\ PassCompleted
    /\ \E st \in TestBodyStmts :
         /\ st.k = "ExprStmt"
         /\ ~is_ignored_function_call(config, st).some
         /\ is_method_call(st.expr).some
         /\ IgnoredChain(is_method_call(st.expr).path, st.expr.args)
         /\ Internal(st.span) \in Emitted

\* the calls of an ignored-function-call statement that the ignored call fc
\* heads: fc itself and every chain applied to it
HeadedBy(st, fc) ==
    { c \in CallNodes \cap Subnodes(st.expr) :
        c.span.lo = fc.span.lo /\ c.span.hi >= fc.span.hi /\ is_method_call(c).some }

\* C6: for an expression statement of a test body whose head call is an
\* ignored function call, no statement span and no suffix span of a chain
\* applied to the ignored call is emitted, while a method call that is an
\* argument of the ignored call is emitted; `expect(x).to.equal(1);` yields
\* no span, `expect(x.foo()).to.equal(y);` only `.foo()`.
C6_IgnoredCallStatement ==
    PassCompleted =>
      /\ \A st \in TestBodyStmts :
           LET fc == is_ignored_function_call(config, st)
           IN  fc.some =>
                 /\ Internal(st.span) \notin Emitted
                 /\ \A c \in HeadedBy(st, fc) : SuffixOf(c) \notin Emitted
                 /\ \A i \in DOMAIN fc.args :
                      (/\ is_method_call(fc.args[i]).some
                       /\ ~IgnoredChain(is_method_call(fc.args[i]).path, fc.args[i].args))
                        => SuffixOf(fc.args[i]) \in Emitted
      /\ source_map = "it(\"m\", () => { expect(x).to.equal(1); });" => spans = <<>>
      /\ source_map = "it(\"m\", () => { expect(x.foo()).to.equal(y); });"
           => Texts = <<".foo()">>

C6_Witness ==
    /\ PassCompleted
    /\ \E st \in TestBodyStmts :
         LET fc == is_ignored_function_call(config, st)
         IN  /\ fc.some
             /\ HeadedBy(st, fc) # {}
             /\ \E i \in DOMAIN fc.args :
                  /\ is_method_call(fc.args[i]).some
                  /\ SuffixOf(fc.args[i]) \in Emitted

Scenario4 == "it(\"m\", () => { a.b().c(); });"

\* C7 as stated: for the test body `a.b().c();` exactly two spans are
\* emitted, `.c()` and then the statement.
C7_TwoSpans ==
    (PassCompleted /\ source_map = Scenario4) => Texts = <<".c()", "a.b().c();">>

\* C7, amended: for the test body `a.b().c();` exactly three spans are
\* emitted, in this order: `.b()`, `.c()`, then the statement `a.b().c();`;
\* and a method-suffix span is always appended before the span of a
\* statement that contains it.
C7_SuffixesThenStatement ==
    /\ (PassCompleted /\ source_map = Scenario4)
         => Texts = <<".b()", ".c()", "a.b().c();">>
    /\ \A i \in DOMAIN spans : \A j \in DOMAIN spans :
         (/\ \E n \in StmtNodes : Internal(n.span) = spans[i]
          /\ \A n \in StmtNodes : Internal(n.span) # spans[j]
          /\ Within(spans[j], spans[i]))
           => j < i

C7_Witness == PassCompleted /\ source_map = Scenario4 /\ Len(spans) = 3

\* what the caller of parse holds once parse has returned
Available(result) == IF result.tag = "Ok" THEN result.spans ELSE <<>>

\* C8: when one file fails with an I/O or parse error, the spans collected
\* from the files analysed before it remain available to the caller.
C8_ErrorKeepsCollectedSpans ==
    (/\ pc = "returned" /\ parse_result.tag = "Err"
     /\ parse_result.error \in {"io_error", "parse_error"})
      => \A sp \in SeqRange(parse_spans) : sp \in SeqRange(Available(parse_result))

WarnCount(file, it_message) ==
    LET key == [warning |-> "ItMessageNotFound", source_file |-> file,
                it_message |-> it_message]
    IN  IF key \in DOMAIN warnings THEN warnings[key] ELSE 0

\* C9: when the `it` message of a span was not found by the dry run of its
\* file, ItMessageNotFound is signalled at most once per file and message,
\* and every exec for a span with that message returns no command (None).
C9_WarnOnceThenNone ==
    /\ \A key \in DOMAIN warnings : warnings[key] <= 1
    /\ (run_result.op = "exec" /\ run_result.value \in {"None", "Some"}) =>
         LET file == run_result.span.source_file
             it_message == span_it_message_map[run_result.span]
             state == test_file_it_message_state_map[file][it_message]
         IN  IF state = "Found"
             THEN run_result.value = "Some"
             ELSE /\ run_result.value = "None"
                  /\ state = "WarningEmitted"
                  /\ WarnCount(file, it_message) = 1

C9_Witness ==
    /\ run_result.op = "exec" /\ run_result.value = "None"
    /\ WarnCount(run_result.span.source_file, span_it_message_map[run_result.span]) = 1
    /\ \E other \in DOMAIN span_it_message_map :
         /\ other # run_result.span
         /\ other.source_file = run_result.span.source_file
         /\ span_it_message_map[other] = span_it_message_map[run_result.span]

EnteringItCall ==
    Running /\ Top.t = "expr" /\ Top.pc = "enter" /\ is_it_call_expr(Top.node)

\* C10: a call recognized as an `it` call that is met while in_it_call_expr
\* is set fails the assertion and aborts the pass; otherwise the flag was
\* false on entry, is set by the entry, and is false again once the call
\* has been visited.
C10_NestedItAborts ==
    [][/\ (EnteringItCall /\ in_it_call_expr) => pc' = "panicked"
       /\ (EnteringItCall /\ pc' # "panicked") => (~in_it_call_expr /\ in_it_call_expr')
       /\ (Running /\ Top.pc = "exit_it" /\ pc' # "panicked") => ~in_it_call_expr']_vars

C10_Witness ==
    /\ pc = "panicked"
    /\ in_it_call_expr
    /\ Top.pc = "enter" /\ is_it_call_expr(Top.node)

ExcludedKinds == {"Break", "Continue", "Decl", "Return"}

\* the statements strictly below a statement
ProperSubStmts(n) == { m \in Subnodes(n) : m.k \in StmtKinds /\ m # n }

\* visit_stmt is about to return for a statement that is visited in test-case
\* mode and is none of break, continue, declaration, return (an ignored
\* function call statement never gets here: its visit has no second half)
ReturningEligibleStmt ==
    /\ Running /\ Top.t = "stmt" /\ Top.pc = "after"
    /\ in_it_call_expr
    /\ Top.node.k \notin ExcludedKinds

Scenario5 == "it(\"m\", () => { if (x) { foo(); } });"

\* C11 as stated: an eligible statement visited in test-case mode has its own
\* span emitted exactly when no span of a statement nested in it was emitted;
\* for `if (x) { foo(); }` only `foo();` is emitted.
C11_EmittedIffNoNestedSpan ==
    [][/\ ReturningEligibleStmt =>
            ((spans' # spans)
               <=> \A m \in ProperSubStmts(Top.node) : Internal(m.span) \notin Emitted)
       /\ (PassCompleted /\ source_map = Scenario5) => Texts = <<"foo();">>]_vars

\* whether the walk over the frames fs reaches a statement that is counted:
\* any statement but an ignored function call, whose arguments are searched
RECURSIVE ReachesCountedStmt(_, _)
ReachesCountedStmt(cfg, fs) ==
    \E i \in DOMAIN fs :
        IF fs[i].t = "stmt"
        THEN LET fc == is_ignored_function_call(cfg, fs[i].node)
             IN  fc.some => ReachesCountedStmt(cfg, Frames("expr", fc.args))
        ELSE ReachesCountedStmt(cfg, Children(fs[i].node))

\* C11, amended: an eligible statement visited in test-case mode has its own
\* span emitted exactly when the recursion into it reached no counted
\* statement, where every visited statement other than an ignored function
\* call is counted, also a break, continue, declaration or return that is not
\* emitted; for `if (x) { foo(); }` only `foo();` is emitted.
C11_EmittedIffNoNestedLeaf ==
    [][/\ ReturningEligibleStmt =>
            ((spans' # spans) <=> ~ReachesCountedStmt(config, Children(Top.node)))
       /\ (PassCompleted /\ source_map = Scenario5) => Texts = <<"foo();">>]_vars

C11_Witness ==
    /\ PassCompleted
    /\ source_map = "it(\"m\", () => { if (x) { return x; } });"
    /\ spans = <<>>

\* receiver.p1...pk: the identifier member accesses of an expression, and the
\* expression left once all of them are stripped
RECURSIVE MemberPath(_)
MemberPath(e) == IF e.k = "Member" THEN Append(MemberPath(e.obj), e.prop) ELSE <<>>

RECURSIVE ReceiverOf(_)
ReceiverOf(e) == IF e.k = "Member" THEN ReceiverOf(e.obj) ELSE e

\* visit_expr is about to return for a call receiver.p1...pk(args), k >= 1,
\* that is visited in test-case mode and is not an ignored method
ReturningMethodCall ==
    /\ Running /\ Top.t = "expr" /\ Top.pc = "after"
    /\ in_it_call_expr
    /\ Top.node.k = "Call" /\ Top.node.callee.k # "Import"
    /\ MemberPath(Top.node.callee) # <<>>
    /\ ~IgnoredChain(MemberPath(Top.node.callee), Top.node.args)

\* C12: for every call receiver.p1...pk(args), k >= 1, visited in test-case
\* mode and not an ignored method, exactly one suffix span is emitted; it
\* runs from the end of the receiver to the end of the call, lo <= hi, the
\* assertion does not fail, and the span covers the text `.p1...pk(args)`,
\* no byte of the receiver.
C12_OneSuffixSpanAfterReceiver ==
    [][ReturningMethodCall =>
         LET call == Top.node
             receiver == ReceiverOf(call.callee)
             new == spans'[Len(spans')]
         IN  /\ pc' # "panicked"
             /\ receiver.span.hi <= call.span.hi
             /\ spans' = Append(spans, Internal([lo |-> receiver.span.hi,
                                                 hi |-> call.span.hi]))
             /\ new \notin Emitted
             /\ LcLe(new.start, new.end)
             /\ TextOf(new) = "." \o JoinDots(MemberPath(call.callee))
                                  \o "(" \o RenderSeq(call.args, ", ") \o ")"]_vars

C12_Witness ==
    /\ PassCompleted
    /\ \E c \in CallNodes :
         /\ c.callee.k # "Import"
         /\ Len(MemberPath(c.callee)) >= 2
         /\ ReceiverOf(c.callee).k \in {"Call", "Paren", "MemberComputed"}
         /\ ~IgnoredChain(MemberPath(c.callee), c.args)
         /\ Internal([lo |-> ReceiverOf(c.callee).span.hi, hi |-> c.span.hi]) \in Emitted

\* the statements `s1.s2...sn(args);` : a call whose callee is a path of identifiers
PathCallStmts(stmts) ==
    { st \in stmts :
        /\ st.k = "ExprStmt" /\ st.expr.k = "Call" /\ st.expr.callee.k # "Import"
        /\ ReceiverOf(st.expr.callee).k = "Ident" }

CallPath(st) == <<ReceiverOf(st.expr.callee).sym>> \o MemberPath(st.expr.callee)

\* the paths the specification lists as ignored
IgnoredFunctionPath(cfg, path) ==
    \/ path[1] = "assert"
    \/ path = <<"expect">>
    \/ JoinDots(path) \in cfg.ignored_functions

\* C13: a call path s1.s2...sn is an ignored function if and only if s1 is
\* `assert`, or the path is exactly `expect`, or the path joined with `.` is
\* literally an entry of ignored_functions; so a statement `s1...sn(args);`
\* of a test body with nothing nested in it is emitted exactly when its path
\* is none of these (`expect.x(..)` is emitted unless `expect.x` is configured).
C13_IgnoredFunctionPaths ==
    /\ \A st \in PathCallStmts(StmtNodes) :
         is_ignored_function_call(config, st).some
           <=> IgnoredFunctionPath(config, CallPath(st))
    /\ PassCompleted =>
         \A st \in PathCallStmts(TestBodyStmts) :
            ProperSubStmts(st) = {} =>
              (Internal(st.span) \in Emitted <=> ~IgnoredFunctionPath(config, CallPath(st)))

C13_Witness ==
    /\ PassCompleted
    /\ config.ignored_functions # {}
    /\ \E st \in PathCallStmts(TestBodyStmts) :
         /\ CallPath(st) = <<"expect", "x">>
         /\ Internal(st.span) \in Emitted

\* the runner printed the line of a passing test with this message
Printed(it_message, stdout) ==
    PassingLine(it_message) \in SeqRange(stdout) \/ TimedLine(it_message) \in SeqRange(stdout)

\* C14: a successful dry run records as Found exactly the message of every
\* line `<indent><check mark> <message>` or `<indent><check mark> <message>
\* (<time>)` of its stdout, also a message that ends in a parenthesized
\* group, so an exec that follows for a span of that test returns a command.
C14_RecordsPrintedMessage ==
    [][(run_result.op = "dry_run" /\ run_result.value = "Ok") =>
         \A c \in Candidates :
            (c.span.source_file = run_result.test_file
               /\ Printed(c.test_name, run_result.stdout)) =>
              /\ c.test_name \in DOMAIN test_file_it_message_state_map[run_result.test_file]
              /\ test_file_it_message_state_map[run_result.test_file][c.test_name] = "Found"
              /\ (run_result'.op = "exec" /\ run_result'.span = c.span
                     /\ run_result'.value # "NotCompiled")
                    => run_result'.value = "Some"]_vars

\* the step is an exec whose compile step succeeded: it returned or panicked
ExecCompiled(r) == r.op = "panic" \/ (r.op = "exec" /\ r.value # "NotCompiled")

DryRunSucceeded(test_file) == [test_file |-> test_file, outcome |-> "Ok"] \in dry_runs
TestCommandSucceeded(test_file) == \E d \in dry_runs : d.test_file = test_file

\* C15 as stated: an exec whose compile step succeeds returns (a command or
\* None) only if a dry_run of the span's file has succeeded before and the
\* span's message was recorded by on_candidate_found; otherwise it panics.
C15_ExecNeedsSuccessfulDryRun ==
    [][ExecCompiled(run_result') =>
         (run_result'.op = "exec"
            <=> /\ DryRunSucceeded(run_result'.span.source_file)
                /\ run_result'.span \in DOMAIN span_it_message_map)]_vars

\* C15, amended: an exec whose compile step succeeds returns (a command or
\* None) exactly when the span's message was recorded by on_candidate_found
\* and the test command of a dry_run of the span's file has succeeded before,
\* whether that dry_run then returned Ok or failed decoding its output;
\* otherwise it panics.
C15_ExecNeedsTestCommandRun ==
    [][ExecCompiled(run_result') =>
         (run_result'.op = "exec"
            <=> /\ TestCommandSucceeded(run_result'.span.source_file)
                /\ run_result'.span \in DOMAIN span_it_message_map)]_vars

C15_Witness ==
    /\ run_result.op = "exec" /\ run_result.value = "None"
    /\ ~DryRunSucceeded(run_result.span.source_file)
    /\ TestCommandSucceeded(run_result.span.source_file)

\* the method calls chained after the ignored call fc of a statement
ChainedOn(st, fc) == { c \in HeadedBy(st, fc) : c.span.hi > fc.span.hi }

\* the nodes in the arguments of the methods chained after fc
ChainedArgNodes(st, fc) ==
    UNION { UNION { Subnodes(c.args[i]) : i \in DOMAIN c.args } : c \in ChainedOn(st, fc) }

Scenario16 == "it(\"m\", () => { expect(a).to.equal(b.c()); });"

\* C16: in an ignored-function-call statement of a test body the arguments
\* of the methods chained after the ignored call are never visited: no
\* statement span and no method-suffix span is emitted for a node inside
\* them; `expect(a).to.equal(b.c());` yields no span.
C16_ChainedArgumentsNotVisited ==
    /\ \A st \in TestBodyStmts :
         LET fc == is_ignored_function_call(config, st)
         IN  fc.some =>
               \A n \in ChainedArgNodes(st, fc) :
                  /\ n.k \in StmtKinds => Internal(n.span) \notin Emitted
                  /\ (n.k = "Call" /\ n.callee.k # "Import" /\ MemberPath(n.callee) # <<>>)
                       => Internal([lo |-> ReceiverOf(n.callee).span.hi,
                                    hi |-> n.span.hi]) \notin Emitted
    /\ (PassCompleted /\ source_map = Scenario16) => spans = <<>>

C16_Witness ==
    /\ PassCompleted
    /\ \E st \in TestBodyStmts :
         LET fc == is_ignored_function_call(config, st)
         IN  /\ fc.some
             /\ \E n \in ChainedArgNodes(st, fc) :
                  /\ n.k = "ExprStmt" /\ n.expr.k = "Call" /\ n.expr.callee.k # "Import"
                  /\ MemberPath(n.expr.callee) # <<>>
                  /\ ~IgnoredChain(MemberPath(n.expr.callee), n.expr.args)

\* a compound statement all of whose nested statements are ignored function
\* call statements
HoldsOnlyIgnoredCalls(cfg, n) ==
    /\ ProperSubStmts(n) # {}
    /\ \A m \in ProperSubStmts(n) : is_ignored_function_call(cfg, m).some

\* C17: an ignored function call statement does not increment the leaf
\* counter, so a compound statement visited in test-case mode whose nested
\* statements are all ignored function call statements is counted as a leaf
\* and its own span is emitted: an emitted statement span may contain an
\* ignored function call.
C17_CompoundOfIgnoredCallsEmitted ==
    [][(ReturningEligibleStmt /\ HoldsOnlyIgnoredCalls(config, Top.node)) =>
         /\ n_stmt_leaves_visited = Top.n_before
         /\ n_stmt_leaves_visited' = n_stmt_leaves_visited + 1
         /\ spans' = Append(spans, Internal(Top.node.span))]_vars

C17_Witness ==
    /\ PassCompleted
    /\ \E n \in EmittedStmtNodes :
         /\ n.k = "Block"
         /\ HoldsOnlyIgnoredCalls(config, n)
         /\ \E m \in ProperSubStmts(n) :
              is_ignored_function_call(config, m).path = <<"expect">>

=============================================================================
